---- MODULE Spec2Model ----
(***************************************************************************)
(* A model of GeorgeIwu/go-parser: the Ethereum parser engine              *)
(* (EthereumParser), its subscriber registry, the JSON-RPC call and the    *)
(* command worker (processCommands) fed by the input loop (main).          *)
(*                                                                         *)
(* The repository holds three snapshots of the same program:               *)
(*   "main"   src/main.go                 Store interface, values only     *)
(*   "memdb"  src/unnamed/part_001:1-299   MemoryStorage, (value, error)   *)
(*   "global" src/unnamed/part_001:301-578 global map, UnsubscribeAddress  *)
(* The variable impl fixes which snapshot a behaviour runs.                *)
(*                                                                         *)
(* Strings that the code slices or parses are sequences of one-character   *)
(* strings.  A uint64 is the sequence of its base-16 digits, most          *)
(* significant first and without leading zeros (<<>> is 0), so that the    *)
(* full 64-bit width is kept.                                              *)
(***************************************************************************)
EXTENDS Integers, Sequences, FiniteSets, TLC

VARIABLES
    impl,          \* which snapshot of the program runs
    subscribers,   \* the registry: a Go map[string]bool
    before,        \* history: the registry when the current operation began
    proc,          \* the process: "running", "crashed" (panic), "exited"
    mainPc,        \* main: "scan" (reading stdin) or "send" (blocked on cmdCh)
    cmdBuf,        \* the command main is sending on cmdCh
    pc,            \* worker: "recv", "dispatch", "rpc" (blocked in http.Post)
    op,            \* the operation the worker took last
    inflight,      \* the JSON-RPC request awaiting its response
    wire,          \* the node's response, not yet read by callRPCMethod
    requests,      \* methods of the requests sent during the operation
    ret,           \* what the engine operation returned to its caller
    diag,          \* the failure the operation reported (returned or printed)
    hexIn,         \* SpecHex: the string given to ParseHexUint64
    hexOut         \* SpecHex: its outcome

vars == <<impl, subscribers, before, proc, mainPc, cmdBuf, pc, op, inflight,
          wire, requests, ret, diag, hexIn, hexOut>>

(***************************************************************************)
(* Bounds.                                                                 *)
(***************************************************************************)
\* longest arbitrary string fed to ParseHexUint64 in SpecHex
MaxHexLen == 3
\* longest arbitrary result string the node returns in Spec
MaxResultLen == 2
\* most transactions in a block the node returns
MaxTxs == 2

(***************************************************************************)
(* Numbers and hex strings.                                                *)
(***************************************************************************)
HexBase == 16
BitSize == 64

LowerHex == <<"0","1","2","3","4","5","6","7","8","9","a","b","c","d","e","f">>
UpperHex == <<"0","1","2","3","4","5","6","7","8","9","A","B","C","D","E","F">>

\* the most hex digits a BitSize-bit value has
MaxDigits == BitSize \div 4

\* 1<<64 - 1
MaxUint64 == [i \in 1..MaxDigits |-> HexBase - 1]

\* the digit a byte stands for in strconv.ParseUint, -1 when it is none
DigitOf(c) ==
    IF \E i \in 1..HexBase : LowerHex[i] = c
    THEN (CHOOSE i \in 1..HexBase : LowerHex[i] = c) - 1
    ELSE IF \E i \in 1..HexBase : UpperHex[i] = c
    THEN (CHOOSE i \in 1..HexBase : UpperHex[i] = c) - 1
    ELSE -1

\* n*base + d on digit sequences (n below the cutoff)
MulAdd(n, d) == IF n = <<>> /\ d = 0 THEN <<>> ELSE Append(n, d)

\* the value of a short digit sequence as an integer
RECURSIVE ToNat(_)
ToNat(n) ==
    IF n = <<>> THEN 0
    ELSE ToNat(SubSeq(n, 1, Len(n) - 1)) * HexBase + n[Len(n)]

\* the loop of strconv.ParseUint(s, 16, 64) from byte i on, n accumulated
RECURSIVE ParseUintLoop(_, _, _)
ParseUintLoop(s, i, n) ==
    IF i > Len(s) THEN [val |-> n, err |-> "nil"]
    ELSE IF DigitOf(s[i]) < 0 \/ DigitOf(s[i]) >= HexBase
    THEN [val |-> <<>>, err |-> "syntax"]
    ELSE IF Len(n) >= MaxDigits
    THEN [val |-> MaxUint64, err |-> "range"]
    ELSE ParseUintLoop(s, i + 1, MulAdd(n, DigitOf(s[i])))

\* strconv.ParseUint(s, 16, 64)
ParseUint(s) ==
    IF s = <<>> THEN [val |-> <<>>, err |-> "syntax"]
    ELSE ParseUintLoop(s, 1, <<>>)

\* hexStr[2:] for a string of at least two bytes
SliceFrom2(hexStr) ==
    SubSeq(hexStr, 3, Len(hexStr))

\* ParseHexUint64: strconv.ParseUint(hexStr[2:], 16, 64); slicing a string
\* shorter than two bytes is a run-time panic (slice bounds out of range)
ParseHexUint64(hexStr) ==
    IF Len(hexStr) < 2
    THEN [panic |-> TRUE, val |-> <<>>, err |-> "nil"]
    ELSE [panic |-> FALSE,
          val   |-> ParseUint(SliceFrom2(hexStr)).val,
          err   |-> ParseUint(SliceFrom2(hexStr)).err]

\* fmt.Sprintf("0x%x", blockNumber)
FormatHex(n) ==
    <<"0", "x">> \o (IF n = <<>> THEN <<"0">>
                     ELSE [i \in 1..Len(n) |-> LowerHex[n[i] + 1]])

(***************************************************************************)
(* Input domains.                                                          *)
(***************************************************************************)
\* all sequences over S of length at most n
RECURSIVE SeqsUpTo(_, _)
SeqsUpTo(S, n) ==
    IF n = 0 THEN {<<>>}
    ELSE SeqsUpTo(S, n - 1) \cup
         {Append(s, c) : s \in {t \in SeqsUpTo(S, n - 1) : Len(t) = n - 1}, c \in S}

Repeat(c, n) == [i \in 1..n |-> c]

\* well-formed and boundary block numbers: 0, 5, 16, 15, 2^64-1, 2^64, 2^64+...
BoundaryHex ==
    { <<"0","x","0">>, <<"0","x","5">>, <<"0","x","1","0">>, <<"0","x","0","F">>,
      <<"1","2","3","4">>,
      <<"0","x">> \o Repeat("f", MaxDigits),
      <<"0","x","1">> \o Repeat("0", MaxDigits),
      <<"0","x">> \o Repeat("f", MaxDigits) \o <<"g">> }

HexAlphabet == {"0", "1", "x", "f", "F", "g"}
HexInputs == SeqsUpTo(HexAlphabet, MaxHexLen) \cup BoundaryHex

(***************************************************************************)
(* Addresses, transactions, blocks, JSON-RPC responses.                    *)
(***************************************************************************)
\* non-empty addresses; "a" and "A" differ only in case
Addresses == {"a", "A"}

\* the words a command line may start with
ActionWords == {"getCurrentBlock", "getTransaction", "subscribeAddress",
                "unsubscribeAddress", "bogus"}

\* a line of stdin, given by its whitespace-separated fields (strings.Fields)
Lines == {<<>>} \cup {<<w>> : w \in ActionWords}
                \cup {<<w, a>> : w \in ActionWords, a \in Addresses}

\* (from, to) of a transaction
TxKinds == Addresses \X Addresses

\* the transactions of a block; the hash is the position in the block
Blocks ==
    { [i \in 1..Len(k) |-> [hash |-> i, from |-> k[i][1], to |-> k[i][2]]] :
        k \in SeqsUpTo(TxKinds, MaxTxs) }

ResultAlphabet == {"0", "x", "f", "g"}
ResultStrings == SeqsUpTo(ResultAlphabet, MaxResultLen) \cup BoundaryHex

\* the "result" member of a response: absent, null, a number, a string, a block
Payload(t, s, txs) == [t |-> t, s |-> s, txs |-> txs]
Payloads ==
    {Payload("absent", <<>>, <<>>), Payload("null", <<>>, <<>>),
     Payload("number", <<>>, <<>>)}
    \cup {Payload("string", s, <<>>) : s \in ResultStrings}
    \cup {Payload("block", <<>>, b) : b \in Blocks}

\* the "error" member of a response: null (or absent), or a payload
ErrorPayloads == {"null", "e1"}

NoReply == [kind |-> "none", error |-> "null", result |-> Payload("absent", <<>>, <<>>)]

\* what http.Post and the body can be: a transport failure, a body that is
\* not an RPCResponse, or an RPCResponse
Replies ==
    {[kind |-> "transport", error |-> "null", result |-> Payload("absent", <<>>, <<>>)],
     [kind |-> "badjson", error |-> "null", result |-> Payload("absent", <<>>, <<>>)]}
    \cup [kind : {"envelope"}, error : ErrorPayloads, result : Payloads]

Err(kind, payload) == [kind |-> kind, payload |-> payload]
NoErr == Err("nil", "-")

(***************************************************************************)
(* MemoryStorage and the Go map.                                           *)
(***************************************************************************)
\* make(map[string]bool)
NewMemoryStorage == [a \in {} |-> TRUE]

\* faulty variant of SetSubscriber: flips the entry instead of setting it
SetSubscriberToggle(m, address) ==
    [a \in (DOMAIN m) \cup {address} |->
        IF a = address THEN ~(address \in DOMAIN m /\ m[address]) ELSE m[a]]

\* m[key] = true
SetSubscriber(m, address) ==
    [a \in (DOMAIN m) \cup {address} |-> IF a = address THEN TRUE ELSE m[a]]

\* value, ok := m[address]; false when absent
IsSubscriber(m, address) ==
    IF address \notin DOMAIN m THEN FALSE ELSE m[address]

\* delete(m, address)
MapDelete(m, address) == [a \in (DOMAIN m) \ {address} |-> m[a]]

(***************************************************************************)
(* callRPCMethod.                                                          *)
(***************************************************************************)
\* json.Unmarshal(response.Result, &result): result points to a string or
\* to a Block; null leaves the target as it was (its zero value)
Unmarshal(payload, target) ==
    IF payload.t = "absent"
    THEN [ok |-> FALSE, str |-> <<>>, txs |-> <<>>]
    ELSE IF payload.t = "null"
    THEN [ok |-> TRUE, str |-> <<>>, txs |-> <<>>]
    ELSE IF target = "string" /\ payload.t = "string"
    THEN [ok |-> TRUE, str |-> payload.s, txs |-> <<>>]
    ELSE IF target = "Block" /\ payload.t = "block"
    THEN [ok |-> TRUE, str |-> <<>>, txs |-> payload.txs]
    ELSE [ok |-> FALSE, str |-> <<>>, txs |-> <<>>]

\* faulty variant of callRPCMethod: decodes the result before it looks at
\* the error member
callRPCMethodDecodeFirst(reply, target) ==
    IF reply.kind = "transport"
    THEN [err |-> Err("transport", "-"), str |-> <<>>, txs |-> <<>>]
    ELSE IF reply.kind = "badjson"
    THEN [err |-> Err("decode", "-"), str |-> <<>>, txs |-> <<>>]
    ELSE IF ~Unmarshal(reply.result, target).ok
    THEN [err |-> Err("parse", "-"), str |-> <<>>, txs |-> <<>>]
    ELSE IF reply.error # "null"
    THEN [err |-> Err("rpc", reply.error), str |-> <<>>, txs |-> <<>>]
    ELSE [err |-> NoErr,
          str |-> Unmarshal(reply.result, target).str,
          txs |-> Unmarshal(reply.result, target).txs]

\* callRPCMethod from the return of http.Post on
callRPCMethod(reply, target) ==
    IF reply.kind = "transport"
    THEN [err |-> Err("transport", "-"), str |-> <<>>, txs |-> <<>>]
    ELSE IF reply.kind = "badjson"
    THEN [err |-> Err("decode", "-"), str |-> <<>>, txs |-> <<>>]
    ELSE IF reply.error # "null"
    THEN [err |-> Err("rpc", reply.error), str |-> <<>>, txs |-> <<>>]
    ELSE IF ~Unmarshal(reply.result, target).ok
    THEN [err |-> Err("parse", "-"), str |-> <<>>, txs |-> <<>>]
    ELSE [err |-> NoErr,
          str |-> Unmarshal(reply.result, target).str,
          txs |-> Unmarshal(reply.result, target).txs]

(***************************************************************************)
(* EthereumParser.                                                         *)
(***************************************************************************)
Snapshots == {"main", "memdb", "global"}

\* how an engine method of snapshot im leaves with error e: main.go prints
\* it and returns the zero value alone, the others return (zero, e)
Failure(im, e) ==
    [panic |-> FALSE, val |-> <<>>,
     err |-> IF im = "main" THEN NoErr ELSE e,
     log |-> IF im = "main" THEN e ELSE NoErr]

\* GetCurrentBlock, given the response to its eth_blockNumber request
GetCurrentBlock(im, reply) ==
    LET c == callRPCMethod(reply, "string")
        p == ParseHexUint64(c.str)
    IN  IF c.err # NoErr THEN Failure(im, c.err)
        ELSE IF p.panic
        THEN [panic |-> TRUE, val |-> <<>>, err |-> NoErr, log |-> NoErr]
        ELSE IF p.err # "nil" THEN Failure(im, Err(p.err, "-"))
        ELSE [panic |-> FALSE, val |-> p.val, err |-> NoErr, log |-> NoErr]

\* the loop of GetTransactions over block.Transactions from index i on
RECURSIVE FilterLoop(_, _, _, _)
FilterLoop(txs, i, address, acc) ==
    IF i > Len(txs) THEN acc
    ELSE FilterLoop(txs, i + 1, address,
                    IF txs[i].from = address \/ txs[i].to = address
                    THEN Append(acc, txs[i]) ELSE acc)

\* faulty variant of the filter: compares the sender only
RECURSIVE FilterLoopFromOnly(_, _, _, _)
FilterLoopFromOnly(txs, i, address, acc) ==
    IF i > Len(txs) THEN acc
    ELSE FilterLoopFromOnly(txs, i + 1, address,
                            IF txs[i].from = address
                            THEN Append(acc, txs[i]) ELSE acc)

FilterTransactionsFromOnly(txs, address) == FilterLoopFromOnly(txs, 1, address, <<>>)

\* GetTransactions: the transactions of the block that touch address
FilterTransactions(txs, address) == FilterLoop(txs, 1, address, <<>>)

\* faulty variant of the gate: the subscription is not looked up
GetTransactionsGateNoLookup(im, m, address) ==
    IF address = ""
    THEN [gate |-> IF im = "main" THEN "engine" ELSE "dispatcher",
          err |-> Err("invalidInput", "-")]
    ELSE [gate |-> "pass", err |-> NoErr]

\* the checks before GetTransactions is entered (processCommands) and at its
\* head (GetTransactions), in the order the snapshot makes them; where "gate"
\* is "dispatcher" the engine is not called
GetTransactionsGate(im, m, address) ==
    IF im = "main"
    THEN IF address = "" THEN [gate |-> "engine", err |-> Err("invalidInput", "-")]
         ELSE IF ~IsSubscriber(m, address)
         THEN [gate |-> "engine", err |-> Err("notSubscribed", address)]
         ELSE [gate |-> "pass", err |-> NoErr]
    ELSE IF im = "memdb"
    THEN IF address = "" THEN [gate |-> "dispatcher", err |-> Err("invalidInput", "-")]
         ELSE IF ~IsSubscriber(m, address)
         THEN [gate |-> "engine", err |-> Err("notSubscribed", address)]
         ELSE [gate |-> "pass", err |-> NoErr]
    ELSE IF address = "" THEN [gate |-> "dispatcher", err |-> Err("invalidInput", "-")]
         ELSE IF ~IsSubscriber(m, address)
         THEN [gate |-> "dispatcher", err |-> Err("notSubscribed", address)]
         ELSE [gate |-> "pass", err |-> NoErr]

\* faulty variant of subscribe: the registry is updated before the address
\* is checked
SubscribeAddressStoreFirst(im, m, address) ==
    IF address = ""
    THEN [gate |-> IF im = "main" THEN "engine" ELSE "dispatcher",
          m |-> SetSubscriber(m, address), val |-> FALSE,
          err |-> Err("invalidInput", "-")]
    ELSE [gate |-> "pass", m |-> SetSubscriber(m, address), val |-> TRUE,
          err |-> NoErr]

\* the subscribeAddress command: the empty-address check (in SubscribeAddress
\* in main.go, in processCommands in the others), then the registry update
SubscribeAddress(im, m, address) ==
    IF address = ""
    THEN [gate |-> IF im = "main" THEN "engine" ELSE "dispatcher",
          m |-> m, val |-> FALSE, err |-> Err("invalidInput", "-")]
    ELSE [gate |-> "pass", m |-> SetSubscriber(m, address),
          val |-> IF im = "global" THEN IsSubscriber(SetSubscriber(m, address), address)
                  ELSE TRUE,
          err |-> NoErr]

\* faulty variant of unsubscribe: reads the entry and leaves it in the map
UnsubscribeAddressNoDelete(m, address) ==
    [m |-> m, val |-> IsSubscriber(m, address)]

\* UnsubscribeAddress (snapshot "global"): delete, then read the entry back
UnsubscribeAddress(m, address) ==
    [m |-> MapDelete(m, address), val |-> IsSubscriber(MapDelete(m, address), address)]

(***************************************************************************)
(* The state machine.                                                      *)
(***************************************************************************)
NoOp == [action |-> "", address |-> "", via |-> "none"]
NoRequest == [method |-> "none", params |-> <<>>]
NotCalled == Err("notCalled", "-")
NoRet == [val |-> <<>>, err |-> NotCalled]
NoHexOut == [panic |-> FALSE, val |-> <<>>, err |-> "pending"]

Init ==
    /\ impl \in Snapshots
    /\ subscribers = NewMemoryStorage
    /\ before = NewMemoryStorage
    /\ proc = "running"
    /\ mainPc = "scan"
    /\ cmdBuf = <<>>
    /\ pc = "recv"
    /\ op = NoOp
    /\ inflight = NoRequest
    /\ wire = NoReply
    /\ requests = <<>>
    /\ ret = NoRet
    /\ diag = NoErr
    /\ hexIn = <<>>
    /\ hexOut = NoHexOut

\* main: scanner.Scan() returned a line
MainScan(line) ==
    /\ proc = "running" /\ mainPc = "scan"
    /\ mainPc' = "send"
    /\ cmdBuf' = line
    /\ UNCHANGED <<impl, subscribers, before, proc, pc, op, inflight, wire,
                   requests, ret, diag, hexIn, hexOut>>

\* main: scanner.Scan() returned false; main returns and the process ends
MainEOF ==
    /\ proc = "running" /\ mainPc = "scan"
    /\ proc' = "exited"
    /\ UNCHANGED <<impl, subscribers, before, mainPc, cmdBuf, pc, op, inflight,
                   wire, requests, ret, diag, hexIn, hexOut>>

\* faulty variant of the receive: a command is taken off cmdCh while the
\* operation of the previous one is still running (one goroutine per command)
ReceiveWhileBusy ==
    /\ proc = "running" /\ mainPc = "send"
    /\ mainPc' = "scan"
    /\ cmdBuf' = <<>>
    /\ pc' = "dispatch"
    /\ op' = [action  |-> IF Len(cmdBuf) < 1 THEN "" ELSE cmdBuf[1],
              address |-> IF Len(cmdBuf) > 1 THEN cmdBuf[2] ELSE "",
              via     |-> "cli"]
    /\ before' = subscribers
    /\ requests' = <<>>
    /\ ret' = NoRet
    /\ diag' = NoErr
    /\ UNCHANGED <<impl, subscribers, proc, inflight, wire, hexIn, hexOut>>

\* the rendezvous on cmdCh: the worker's select receives main's command and
\* reads the action and the address off its fields
Receive ==
    /\ proc = "running" /\ mainPc = "send" /\ pc = "recv"
    /\ mainPc' = "scan"
    /\ cmdBuf' = <<>>
    /\ pc' = "dispatch"
    /\ op' = [action  |-> IF Len(cmdBuf) < 1 THEN "" ELSE cmdBuf[1],
              address |-> IF Len(cmdBuf) > 1 THEN cmdBuf[2] ELSE "",
              via     |-> "cli"]
    /\ before' = subscribers
    /\ requests' = <<>>
    /\ ret' = NoRet
    /\ diag' = NoErr
    /\ UNCHANGED <<impl, subscribers, proc, inflight, wire, hexIn, hexOut>>

\* the operation ends without a (further) request
Finish(r, d) ==
    /\ pc' = "recv"
    /\ ret' = r
    /\ diag' = d
    /\ inflight' = NoRequest
    /\ wire' = NoReply

\* callRPCMethod posts a request and blocks in http.Post
Send(method, params) ==
    /\ pc' = "rpc"
    /\ inflight' = [method |-> method, params |-> params]
    /\ requests' = Append(requests, method)
    /\ wire' = NoReply

\* len(args) < 1
ExecBlank ==
    /\ proc = "running" /\ pc = "dispatch" /\ op.via = "cli"
    /\ op.action = ""
    /\ Finish(NoRet, Err("noAction", "-"))
    /\ UNCHANGED <<impl, subscribers, before, proc, mainPc, cmdBuf, op, requests,
                   hexIn, hexOut>>

\* the default case of the switch
ExecInvalidAction ==
    /\ proc = "running" /\ pc = "dispatch" /\ op.via = "cli"
    /\ op.action \notin {"", "getCurrentBlock", "getTransaction", "subscribeAddress"}
    /\ Finish(NoRet, Err("invalidAction", op.action))
    /\ UNCHANGED <<impl, subscribers, before, proc, mainPc, cmdBuf, op, requests,
                   hexIn, hexOut>>

\* case "getCurrentBlock": GetCurrentBlock up to its http.Post
ExecGetCurrentBlock ==
    /\ proc = "running" /\ pc = "dispatch" /\ op.via = "cli"
    /\ op.action = "getCurrentBlock"
    /\ Send("eth_blockNumber", <<>>)
    /\ UNCHANGED <<impl, subscribers, before, proc, mainPc, cmdBuf, op, ret, diag,
                   hexIn, hexOut>>

\* case "getTransaction", rejected before any request
ExecGetTransactionRejected ==
    /\ proc = "running" /\ pc = "dispatch" /\ op.via = "cli"
    /\ op.action = "getTransaction"
    /\ LET g == GetTransactionsGate(impl, subscribers, op.address)
       IN  /\ g.gate # "pass"
           /\ Finish(IF g.gate = "dispatcher" THEN NoRet
                     ELSE [val |-> <<>>, err |-> Failure(impl, g.err).err],
                     g.err)
    /\ UNCHANGED <<impl, subscribers, before, proc, mainPc, cmdBuf, op, requests,
                   hexIn, hexOut>>

\* case "getTransaction": GetTransactions up to the http.Post of GetCurrentBlock
ExecGetTransactionStart ==
    /\ proc = "running" /\ pc = "dispatch" /\ op.via = "cli"
    /\ op.action = "getTransaction"
    /\ GetTransactionsGate(impl, subscribers, op.address).gate = "pass"
    /\ Send("eth_blockNumber", <<>>)
    /\ UNCHANGED <<impl, subscribers, before, proc, mainPc, cmdBuf, op, ret, diag,
                   hexIn, hexOut>>

\* case "subscribeAddress"
ExecSubscribeAddress ==
    /\ proc = "running" /\ pc = "dispatch" /\ op.via = "cli"
    /\ op.action = "subscribeAddress"
    /\ LET s == SubscribeAddress(impl, subscribers, op.address)
       IN  /\ subscribers' = s.m
           /\ Finish(IF s.gate = "dispatcher" THEN NoRet
                     ELSE [val |-> s.val, err |-> NoErr],
                     s.err)
    /\ UNCHANGED <<impl, before, proc, mainPc, cmdBuf, op, requests, hexIn, hexOut>>

\* a caller of the engine invokes UnsubscribeAddress between two commands
\* (snapshot "global" exports it; processCommands has no case for it)
CallUnsubscribeAddress(address) ==
    /\ proc = "running" /\ pc = "recv" /\ impl = "global"
    /\ pc' = "dispatch"
    /\ op' = [action |-> "UnsubscribeAddress", address |-> address, via |-> "api"]
    /\ before' = subscribers
    /\ requests' = <<>>
    /\ ret' = NoRet
    /\ diag' = NoErr
    /\ UNCHANGED <<impl, subscribers, proc, mainPc, cmdBuf, inflight, wire,
                   hexIn, hexOut>>

ExecUnsubscribeAddress ==
    /\ proc = "running" /\ pc = "dispatch" /\ op.via = "api"
    /\ LET u == UnsubscribeAddress(subscribers, op.address)
       IN  /\ subscribers' = u.m
           /\ Finish([val |-> u.val, err |-> NoErr], NoErr)
    /\ UNCHANGED <<impl, before, proc, mainPc, cmdBuf, op, requests, hexIn, hexOut>>

\* the node answers the request in flight, or the transport fails
NodeReply(reply) ==
    /\ proc = "running" /\ pc = "rpc" /\ wire = NoReply
    /\ wire' = reply
    /\ UNCHANGED <<impl, subscribers, before, proc, mainPc, cmdBuf, pc, op,
                   inflight, requests, ret, diag, hexIn, hexOut>>

\* what the operation reports when GetCurrentBlock left with g
Reported(g) == IF g.log # NoErr THEN g.log ELSE g.err

\* faulty variant of the check after GetCurrentBlock: its outcome is ignored
\* and the block is always asked for
StopsAfterHeightNever(im, g) == FALSE

\* whether GetTransactions returns after GetCurrentBlock left with g:
\* blockNumber == 0 in main.go, err != nil in the others
StopsAfterHeight(im, g) ==
    IF im = "main" THEN g.val = <<>> ELSE g.err # NoErr

\* GetCurrentBlock resumes and ParseHexUint64 panics: the process dies
ResumeHeightPanic ==
    /\ proc = "running" /\ pc = "rpc" /\ wire # NoReply
    /\ inflight.method = "eth_blockNumber"
    /\ GetCurrentBlock(impl, wire).panic
    /\ proc' = "crashed"
    /\ wire' = NoReply
    /\ UNCHANGED <<impl, subscribers, before, mainPc, cmdBuf, pc, op, inflight,
                   requests, ret, diag, hexIn, hexOut>>

\* case "getCurrentBlock": GetCurrentBlock returns
ResumeHeightDone ==
    /\ proc = "running" /\ pc = "rpc" /\ wire # NoReply
    /\ inflight.method = "eth_blockNumber"
    /\ op.action = "getCurrentBlock"
    /\ LET g == GetCurrentBlock(impl, wire)
       IN  /\ ~g.panic
           /\ Finish([val |-> g.val, err |-> g.err], Reported(g))
    /\ UNCHANGED <<impl, subscribers, before, proc, mainPc, cmdBuf, op, requests,
                   hexIn, hexOut>>

\* GetTransactions returns after GetCurrentBlock without asking for the block
ResumeHeightAbort ==
    /\ proc = "running" /\ pc = "rpc" /\ wire # NoReply
    /\ inflight.method = "eth_blockNumber"
    /\ op.action = "getTransaction"
    /\ LET g == GetCurrentBlock(impl, wire)
       IN  /\ ~g.panic
           /\ StopsAfterHeight(impl, g)
           /\ Finish([val |-> <<>>, err |-> g.err],
                     IF Reported(g) # NoErr THEN Reported(g)
                     ELSE Err("zeroHeight", "-"))
    /\ UNCHANGED <<impl, subscribers, before, proc, mainPc, cmdBuf, op, requests,
                   hexIn, hexOut>>

\* GetTransactions asks for the block at the height GetCurrentBlock returned
ResumeHeightFetch ==
    /\ proc = "running" /\ pc = "rpc" /\ wire # NoReply
    /\ inflight.method = "eth_blockNumber"
    /\ op.action = "getTransaction"
    /\ LET g == GetCurrentBlock(impl, wire)
       IN  /\ ~g.panic
           /\ ~StopsAfterHeight(impl, g)
           /\ Send("eth_getBlockByNumber", <<FormatHex(g.val), TRUE>>)
    /\ UNCHANGED <<impl, subscribers, before, proc, mainPc, cmdBuf, op, ret, diag,
                   hexIn, hexOut>>

\* GetTransactions from the response to eth_getBlockByNumber on
GetTransactionsTail(im, reply, address) ==
    LET c == callRPCMethod(reply, "Block")
    IN  IF c.err # NoErr THEN Failure(im, c.err)
        ELSE [panic |-> FALSE, val |-> FilterTransactions(c.txs, address),
              err |-> NoErr, log |-> NoErr]

ResumeBlock ==
    /\ proc = "running" /\ pc = "rpc" /\ wire # NoReply
    /\ inflight.method = "eth_getBlockByNumber"
    /\ LET t == GetTransactionsTail(impl, wire, op.address)
       IN  Finish([val |-> t.val, err |-> t.err], Reported(t))
    /\ UNCHANGED <<impl, subscribers, before, proc, mainPc, cmdBuf, op, requests,
                   hexIn, hexOut>>

Next ==
    \/ \E line \in Lines : MainScan(line)
    \/ MainEOF
    \/ Receive
    \/ ExecBlank
    \/ ExecInvalidAction
    \/ ExecGetCurrentBlock
    \/ ExecGetTransactionRejected
    \/ ExecGetTransactionStart
    \/ ExecSubscribeAddress
    \/ \E a \in Addresses \cup {""} : CallUnsubscribeAddress(a)
    \/ ExecUnsubscribeAddress
    \/ \E reply \in Replies : NodeReply(reply)
    \/ ResumeHeightPanic
    \/ ResumeHeightDone
    \/ ResumeHeightAbort
    \/ ResumeHeightFetch
    \/ ResumeBlock

Spec == Init /\ [][Next]_vars

(***************************************************************************)
(* ParseHexUint64 as a pure function: SpecHex draws the input string and   *)
(* applies it.                                                             *)
(***************************************************************************)
InitHex ==
    /\ impl = "main"
    /\ subscribers = NewMemoryStorage
    /\ before = NewMemoryStorage
    /\ proc = "running"
    /\ mainPc = "scan"
    /\ cmdBuf = <<>>
    /\ pc = "recv"
    /\ op = NoOp
    /\ inflight = NoRequest
    /\ wire = NoReply
    /\ requests = <<>>
    /\ ret = NoRet
    /\ diag = NoErr
    /\ hexIn \in HexInputs
    /\ hexOut = NoHexOut

ApplyParseHex ==
    /\ hexOut = NoHexOut
    /\ hexOut' = ParseHexUint64(hexIn)
    /\ UNCHANGED <<impl, subscribers, before, proc, mainPc, cmdBuf, pc, op,
                   inflight, wire, requests, ret, diag, hexIn>>

NextHex == ApplyParseHex

SpecHex == InitHex /\ [][NextHex]_vars

(***************************************************************************)
(* Vocabulary of the properties.                                           *)
(***************************************************************************)
\* address a is in the registry m
Member(m, a) == a \in DOMAIN m /\ m[a]

\* the worker has completed operation op
Done == pc = "recv" /\ op.via # "none"

\* the completed operation is the command word on the command line
DoneCommand(word) == Done /\ op.via = "cli" /\ op.action = word

\* the step in which callRPCMethod reads the response on the wire
ReadsResponse == pc = "rpc" /\ wire # NoReply /\ wire' = NoReply

MatchingSubsequence(txs, x) == SelectSeq(txs, LAMBDA t : t.from = x \/ t.to = x)

C2_ExactSubsequenceInOrder ==
    [][ (/\ ReadsResponse
         /\ inflight.method = "eth_getBlockByNumber"
         /\ wire.kind = "envelope" /\ wire.error = "null"
         /\ wire.result.t = "block")
        => /\ pc' = "recv"
           /\ diag' = NoErr
           /\ ret'.err = NoErr
           /\ ret'.val = MatchingSubsequence(wire.result.txs, op.address)
           /\ Member(subscribers, op.address) ]_vars

C2_Witness ==
    /\ DoneCommand("getTransaction")
    /\ diag = NoErr
    /\ Len(requests) = 2
    /\ Len(ret.val) = 1
    /\ ret.val[1].hash = 2
    /\ ret.val[1].to = op.address /\ ret.val[1].from # op.address

(***************************************************************************)
(* C3: after subscribe(A), for a non-empty A, A is in the registry and     *)
(* the operation returned true; when A was already subscribed the          *)
(* registry is the same as before.                                         *)
(***************************************************************************)
C3_SubscribeIdempotent ==
    (DoneCommand("subscribeAddress") /\ op.address # "")
    => /\ Member(subscribers, op.address)
       /\ IsSubscriber(subscribers, op.address)
       /\ ret.val = TRUE
       /\ ret.err = NoErr
       /\ diag = NoErr
       /\ requests = <<>>
       /\ Member(before, op.address) => subscribers = before

C3_Witness ==
    /\ DoneCommand("subscribeAddress")
    /\ Member(before, op.address)
    /\ ret.val = TRUE
    /\ subscribers = before

(***************************************************************************)
(* C4 as stated: after a request to unsubscribe A (the engine operation,   *)
(* or the command unsubscribeAddress A), A is not in the registry.         *)
(***************************************************************************)
C4_UnsubscribeOffered ==
    (Done /\ (op.via = "api" \/ (op.via = "cli" /\ op.action = "unsubscribeAddress")))
    => ~Member(subscribers, op.address)

(***************************************************************************)
(* C4 amended: where the engine has UnsubscribeAddress (the snapshot with  *)
(* the global map), after it A is not in the registry, every other         *)
(* membership is as before (so for a non-member the registry keeps its     *)
(* members), and a later getTransaction for A is rejected as not           *)
(* subscribed.  The other engines have no unsubscribe: members stay, and   *)
(* the command unsubscribeAddress is an invalid action that changes        *)
(* nothing.                                                                *)
(***************************************************************************)
C4_UnsubscribeWhereOffered ==
    /\ (Done /\ op.via = "api")
       => /\ impl = "global"
          /\ ~Member(subscribers, op.address)
          /\ ret.val = FALSE
          /\ \A x \in Addresses \cup {""} :
                x # op.address => (Member(subscribers, x) <=> Member(before, x))
          /\ ~Member(before, op.address) => subscribers = before
    /\ (DoneCommand("getTransaction") /\ op.address # ""
          /\ ~Member(subscribers, op.address))
       => diag.kind = "notSubscribed" /\ requests = <<>>
    /\ DoneCommand("unsubscribeAddress")
       => subscribers = before /\ diag.kind = "invalidAction"
    /\ impl # "global"
       => \A x \in Addresses : Member(before, x) => Member(subscribers, x)

C4_Witness ==
    /\ Done /\ op.via = "api"
    /\ op.address = "a"
    /\ Member(before, "a") /\ Member(before, "A")
    /\ ~Member(subscribers, "a") /\ Member(subscribers, "A")

(***************************************************************************)
(* C5: subscribe, unsubscribe or the transaction query with the empty      *)
(* address fails as invalid input, sends no request and leaves the empty   *)
(* string out of the registry.                                             *)
(***************************************************************************)
C5_EmptyAddressRejected ==
    (/\ Done
     /\ op.address = ""
     /\ \/ op.via = "api"
        \/ op.via = "cli" /\ op.action \in {"subscribeAddress", "getTransaction"})
    => /\ diag = Err("invalidInput", "-")
       /\ requests = <<>>
       /\ ~Member(subscribers, "")

(***************************************************************************)
(* C6: when the response read by callRPCMethod is an envelope whose error  *)
(* is not null, the operation fails with the RPC error carrying that       *)
(* payload, whatever the result member is (never a parse error), sends no  *)
(* further request and the process keeps running.                          *)
(***************************************************************************)
C6_ErrorEnvelopeBeforeDecode ==
    [][ (ReadsResponse /\ wire.kind = "envelope" /\ wire.error # "null")
        => /\ proc' = "running"
           /\ pc' = "recv"
           /\ diag' = Err("rpc", wire.error)
           /\ requests' = requests
           /\ impl # "main" => ret'.err = Err("rpc", wire.error) ]_vars

C6_Witness ==
    /\ DoneCommand("getTransaction")
    /\ diag = Err("rpc", "e1")
    /\ Len(requests) = 2

(***************************************************************************)
(* C7: ParseHexUint64 returns the base-16 64-bit value of the characters   *)
(* after a leading "0x", and fails with a parse error, without crashing,   *)
(* when the prefix is missing, the rest is empty or has a non-hex          *)
(* character, or the value does not fit 64 bits.                           *)
(***************************************************************************)
HasPrefix0x(s) == Len(s) >= 2 /\ s[1] = "0" /\ s[2] = "x"

\* the digits of s, leading zeros dropped
RECURSIVE Canonical(_)
Canonical(s) ==
    IF s = <<>> THEN <<>>
    ELSE IF DigitOf(s[1]) = 0 THEN Canonical(Tail(s))
    ELSE [i \in 1..Len(s) |-> DigitOf(s[i])]

WellFormedHex(s) ==
    /\ HasPrefix0x(s)
    /\ Len(s) > 2
    /\ \A i \in 3..Len(s) : DigitOf(s[i]) >= 0
    /\ Len(Canonical(SubSeq(s, 3, Len(s)))) <= MaxDigits

C7_HexParse ==
    hexOut # NoHexOut
    => /\ ~hexOut.panic
       /\ IF WellFormedHex(hexIn)
          THEN hexOut.err = "nil" /\ hexOut.val = Canonical(SubSeq(hexIn, 3, Len(hexIn)))
          ELSE hexOut.err \in {"syntax", "range"}

(***************************************************************************)
(* C8: the value the current-height operation or the transaction query     *)
(* returns tells a failure from a success: it carries an error exactly     *)
(* when the operation failed.                                              *)
(***************************************************************************)
C8_FailureDistinguishable ==
    (/\ Done /\ op.via = "cli"
     /\ op.action \in {"getCurrentBlock", "getTransaction"}
     /\ ret.err # NotCalled)
    => (diag # NoErr <=> ret.err # NoErr)

(***************************************************************************)
(* C9: the registry starts empty and changes only in a subscribe that      *)
(* succeeds or in an unsubscribe; every step of the current-height         *)
(* operation and of the transaction query, and every operation that ends   *)
(* in a failure, leaves it as it was.                                      *)
(***************************************************************************)
C9_MembershipFrame ==
    /\ subscribers = NewMemoryStorage
    /\ [][ /\ subscribers' # subscribers
              => /\ pc = "dispatch" /\ pc' = "recv"
                 /\ diag' = NoErr
                 /\ \/ op.via = "cli" /\ op.action = "subscribeAddress"
                                      /\ ret'.val = TRUE
                    \/ op.via = "api"
           /\ (pc' = "recv" /\ pc # "recv" /\ diag' # NoErr)
              => subscribers' = subscribers
           /\ proc' # "running" => subscribers' = subscribers ]_vars

C9_Witness ==
    /\ DoneCommand("getTransaction")
    /\ diag.kind = "parse"
    /\ Len(requests) = 2
    /\ Member(subscribers, "a") /\ ~Member(subscribers, "A")
    /\ subscribers = before

(***************************************************************************)
(* C10: no node response and no command crashes the process.               *)
(***************************************************************************)
C10_NoCrash == proc # "crashed"

CallFails(reply, method) ==
    \/ reply.kind # "envelope"
    \/ reply.error # "null"
    \/ reply.result.t \in {"absent", "number"}
    \/ method = "eth_blockNumber" /\ reply.result.t = "block"
    \/ method = "eth_getBlockByNumber" /\ reply.result.t = "string"

HexValue(s) == Canonical(SubSeq(s, 3, Len(s)))

\* the node answers the height request of a transaction query with height s
HeightAnswered(s) ==
    /\ ReadsResponse
    /\ inflight.method = "eth_blockNumber"
    /\ op.action = "getTransaction"
    /\ wire.kind = "envelope" /\ wire.error = "null"
    /\ wire.result.t = "string" /\ wire.result.s = s

\* the request in flight asks for the full block at height h
AsksForBlock(request, h) ==
    /\ request.method = "eth_getBlockByNumber"
    /\ Len(request.params) = 2
    /\ WellFormedHex(request.params[1])
    /\ HexValue(request.params[1]) = h
    /\ request.params[2] = TRUE

C12_BlockRequestAtReturnedHeight ==
    [][ \A s \in ResultStrings :
          (HeightAnswered(s) /\ WellFormedHex(s))
          => /\ pc' = "rpc"
             /\ AsksForBlock(inflight', HexValue(s))
             /\ requests' = <<"eth_blockNumber", "eth_getBlockByNumber">> ]_vars

(***************************************************************************)
(* C13: one worker runs the commands one at a time and in the order they   *)
(* were entered.  An operation begins only when no operation is in         *)
(* flight; the command the worker takes is the one main holds, which is    *)
(* the only one entered and not yet taken, and main enters the next only   *)
(* after that hand-over; the registry is touched only inside the one       *)
(* operation in flight.                                                    *)
(***************************************************************************)
\* field i of a command line, "" when the line has fewer fields
Field(line, i) == IF Len(line) >= i THEN line[i] ELSE ""

\* the commands entered and not yet taken by the worker, oldest first
Pending == IF mainPc = "send" THEN <<cmdBuf>> ELSE <<>>

C13_SingleSerializingWorker ==
    [][ /\ (pc' = "dispatch" /\ pc # "dispatch") => pc = "recv"
        /\ op' # op => (pc = "recv" /\ pc' = "dispatch")
        /\ Pending' # Pending
           => \/ /\ Pending = <<>> /\ Len(Pending') = 1
                 /\ UNCHANGED <<pc, op, subscribers>>
              \/ /\ Len(Pending) = 1 /\ Pending' = <<>>
                 /\ pc = "recv" /\ pc' = "dispatch"
                 /\ op' = [action  |-> Field(Head(Pending), 1),
                           address |-> Field(Head(Pending), 2),
                           via     |-> "cli"]
        /\ subscribers' # subscribers => (pc = "dispatch" /\ pc' = "recv")
        /\ (pc # "recv" /\ pc' = pc) => UNCHANGED <<op, subscribers, ret, diag>> ]_vars

C13_Witness ==
    /\ proc = "running"
    /\ pc = "rpc" /\ wire # NoReply
    /\ op.action = "getTransaction"
    /\ inflight.method = "eth_getBlockByNumber"
    /\ Pending = << <<"subscribeAddress", "A">> >>

====
